---- MODULE Spec2Model ----
(***************************************************************************)
(* Data-access layer of the financial tracking backend (src/database.py):  *)
(* the four tables of Database.init_db, the record classes User,           *)
(* Transaction, Account and FinancialGoal with their save() and query      *)
(* methods, and the trial / subscription gate of User.                     *)
(*                                                                         *)
(* Encoding of Python and SQL values:                                      *)
(*   - None / NULL of a text column is the string None;                    *)
(*   - None of an integer key is NoneId (0): rowids start at 1, and the    *)
(*     code's own tests ("if self.id", "if amount") treat None and 0       *)
(*     alike;                                                              *)
(*   - a timestamp string is a tuple: <<>> is None, <<t>> is the naive     *)
(*     ISO text of instant t (what datetime.isoformat() of a naive         *)
(*     datetime gives), <<t, "Z">> and <<t, "+00:00">> are the same text   *)
(*     followed by that zone designator.  Instants are counted in days;    *)
(*   - a transaction date is <<y, m>> (an ISO date of that year and        *)
(*     month) or <<>> for NULL;                                            *)
(*   - amounts are counted in integer units; exact rationals stand for     *)
(*     float quotients.                                                    *)
(*                                                                         *)
(* Every method opens its own connection and runs one statement, so each   *)
(* call is one step.  A statement that raises leaves its connection open;  *)
(* the write lock that connection holds until it is collected delays or    *)
(* fails later writes without changing any row, and is not modelled.       *)
(***************************************************************************)
EXTENDS Integers, Sequences, FiniteSets, TLC

VARIABLES
    now,              \* the wall clock read by datetime.utcnow(), in days
    users,            \* rows of table users
    transactions,     \* rows of table transactions
    accounts,         \* rows of table accounts
    financial_goals,  \* rows of table financial_goals
    last              \* the last call: its name, receiver/arguments, outcome

vars == <<now, users, transactions, accounts, financial_goals, last>>

tables == <<users, transactions, accounts, financial_goals>>

----------------------------------------------------------------------------
(* Bounds of the model *)

MaxTime == 9
MaxEnd == 3
MaxRows == 2

----------------------------------------------------------------------------
(* Values *)

None == "None"
NoneId == 0
NoTimestamp == <<>>
NoDate == <<>>

TrialDays == 7

\* Timestamp texts a caller hands to the User constructor: none, naive ISO
\* text, or ISO text ending in "Z".
Timestamps ==
    {NoTimestamp}
        \cup {<<t>> : t \in 0..MaxEnd}
        \cup {<<t, "Z">> : t \in 0..MaxEnd}

\* AUTOINCREMENT: one more than the largest rowid of the table.
RECURSIVE MaxOf(_)
MaxOf(S) ==
    IF S = {} THEN 0
    ELSE LET x == CHOOSE y \in S : TRUE
             m == MaxOf(S \ {x})
         IN IF x > m THEN x ELSE m

lastrowid(table) == 1 + MaxOf({row.id : row \in table})

TotalRows ==
    Cardinality(transactions) + Cardinality(accounts)
        + Cardinality(financial_goals)

----------------------------------------------------------------------------
(* datetime *)

\* str.replace('Z', '+00:00')
replace_Z(s) == IF Len(s) = 2 /\ s[2] = "Z" THEN <<s[1], "+00:00">> ELSE s

\* datetime.fromisoformat: a text with an offset parses to an aware datetime.
fromisoformat(s) ==
    [t |-> s[1], tzinfo |-> IF Len(s) = 2 THEN "UTC" ELSE None]

\* datetime.utcnow(): naive.
utcnow == [t |-> now, tzinfo |-> None]

\* datetime.isoformat()
isoformat(d) == IF d.tzinfo = None THEN <<d.t>> ELSE <<d.t, "+00:00">>

\* d + timedelta(days=n)
plus_days(d, n) == [d EXCEPT !.t = d.t + n]

\* Ordering two datetimes raises TypeError when one is naive and the other aware.
comparable(a, b) == (a.tzinfo = None) <=> (b.tzinfo = None)

----------------------------------------------------------------------------
(* class User *)

\* User.__init__ on the keyword arguments a (a row, or a caller's values).
User_init(a) ==
    [a EXCEPT
        !.active = (a.active # 0),
        !.subscription_plan =
            IF a.subscription_plan \in {None, ""} THEN "trial"
            ELSE a.subscription_plan,
        !.subscription_status =
            IF a.subscription_status \in {None, ""} THEN "trial"
            ELSE a.subscription_status]

is_trial_expired_mut(self) ==
    IF self.trial_end_date = NoTimestamp
    THEN [raised |-> None, ret |-> FALSE]
    ELSE LET trial_end == fromisoformat(replace_Z(self.trial_end_date))
         IN IF comparable(utcnow, trial_end)
            THEN [raised |-> None, ret |-> (utcnow.t >= trial_end.t)]
            ELSE [raised |-> "TypeError", ret |-> FALSE]

\* User.is_trial_expired
is_trial_expired(self) ==
    IF self.trial_end_date = NoTimestamp
    THEN [raised |-> None, ret |-> FALSE]
    ELSE LET trial_end == fromisoformat(replace_Z(self.trial_end_date))
         IN IF comparable(utcnow, trial_end)
            THEN [raised |-> None, ret |-> (utcnow.t > trial_end.t)]
            ELSE [raised |-> "TypeError", ret |-> FALSE]

\* User.is_subscription_active.  ret is the Python value returned, as text:
\* "x and y and z" gives the first falsy operand, so None when no end date is set.
is_subscription_active(self) ==
    IF self.subscription_status = "trial"
    THEN LET e == is_trial_expired(self)
         IN IF e.raised # None
            THEN [raised |-> e.raised, ret |-> "False"]
            ELSE [raised |-> None, ret |-> IF e.ret THEN "False" ELSE "True"]
    ELSE IF self.subscription_status # "active"
    THEN [raised |-> None, ret |-> "False"]
    ELSE IF self.subscription_end_date = NoTimestamp
    THEN [raised |-> None, ret |-> "None"]
    ELSE LET sub_end == fromisoformat(replace_Z(self.subscription_end_date))
         IN IF comparable(utcnow, sub_end)
            THEN [raised |-> None,
                  ret |-> IF utcnow.t <= sub_end.t THEN "True" ELSE "False"]
            ELSE [raised |-> "TypeError", ret |-> "False"]

\* Python truthiness of a returned value.
truthy(v) == v = "True"

\* The static table of get_plan_features.
features ==
    [trial |->
        [name |-> "Teste Gratis", transactions_limit |-> 10,
         reports |-> FALSE, automation |-> FALSE, multi_user |-> FALSE],
     mei |->
        [name |-> "Plano MEI", transactions_limit |-> 100,
         reports |-> TRUE, automation |-> FALSE, multi_user |-> FALSE],
     professional |->
        [name |-> "Plano Profissional", transactions_limit |-> 500,
         reports |-> TRUE, automation |-> TRUE, multi_user |-> FALSE],
     enterprise |->
        [name |-> "Plano Empresarial", transactions_limit |-> -1,
         reports |-> TRUE, automation |-> TRUE, multi_user |-> TRUE]]

get_plan_features_mut(self) ==
    IF self.subscription_plan \in DOMAIN features
    THEN features[self.subscription_plan]
    ELSE features["mei"]

\* User.get_plan_features: dict.get with the trial entry as default.
get_plan_features(self) ==
    IF self.subscription_plan \in DOMAIN features
    THEN features[self.subscription_plan]
    ELSE features["trial"]

\* werkzeug's generate_password_hash: opaque, never the password itself.
generate_password_hash(password) == <<"hash", password>>

\* User.get_by_id
User_get_by_id(user_id) ==
    IF \E row \in users : row.id = user_id
    THEN User_init(CHOOSE row \in users : row.id = user_id)
    ELSE [id |-> NoneId]

users_unique_violation_mut(username, email) ==
    \E row \in users : row.username = username

\* UNIQUE(username), UNIQUE(email) of table users.
users_unique_violation(username, email) ==
    \E row \in users : row.username = username \/ row.email = email

\* The row INSERT INTO users stores: the columns the statement omits take the
\* schema's defaults.
users_insert_row(username, email, password_hash, full_name, phone, trial_end) ==
    [id |-> lastrowid(users),
     username |-> username,
     email |-> email,
     password_hash |-> password_hash,
     full_name |-> full_name,
     phone |-> phone,
     created_at |-> <<now>>,
     active |-> 1,
     trial_start_date |-> <<now>>,
     trial_end_date |-> trial_end,
     subscription_plan |-> "trial",
     subscription_status |-> "trial",
     subscription_end_date |-> NoTimestamp]

\* Arguments of User.create (the registration form requires all but phone).
Usernames == {"ana", "bia"}
Emails == {"ana@x.br", "bia@x.br"}
Passwords == {"segredo"}
FullNames == {"Ana B"}
Phones == {None, "5511"}

\* User.create: one INSERT, then User.get_by_id on the committed table.
User_create(username, email, password, full_name, phone) ==
    LET trial_end == isoformat(plus_days(utcnow, TrialDays))
        password_hash == generate_password_hash(password)
        user_id == lastrowid(users)
        call == [op |-> "User.create", username |-> username, email |-> email]
    IN \/ /\ users_unique_violation(username, email)
          /\ UNCHANGED users
          /\ last' = call @@ [raised |-> "IntegrityError", ret |-> [id |-> NoneId]]
       \/ /\ ~users_unique_violation(username, email)
          /\ users' = users \cup
                {users_insert_row(username, email, password_hash,
                                  full_name, phone, trial_end)}
          /\ last' = call @@ [raised |-> None, ret |-> User_get_by_id(user_id)']

CreateUser ==
    /\ \E username \in Usernames, email \in Emails, password \in Passwords,
          full_name \in FullNames, phone \in Phones :
            User_create(username, email, password, full_name, phone)
    /\ UNCHANGED <<now, transactions, accounts, financial_goals>>

\* Time passes.
Tick ==
    /\ now < MaxTime
    /\ now' = now + 1
    /\ last' = [op |-> "tick"]
    /\ UNCHANGED tables

---------------------------------------------------------------------------------------------------------------------------------------------------
(* The gate, called on a User object built from a caller's values *)

Plans == {None, "", "trial", "mei", "professional", "enterprise", "premium"}
Statuses == {None, "trial", "active", "expired"}

\* Keyword arguments for User(...).
UserArgs(plans, statuses, trial_ends, sub_ends) ==
    {[id |-> 1, username |-> "ana", email |-> "ana@x.br",
      password_hash |-> generate_password_hash("segredo"),
      full_name |-> "Ana B", phone |-> None, created_at |-> <<0>>,
      active |-> 1, trial_start_date |-> <<0>>,
      trial_end_date |-> te, subscription_plan |-> p,
      subscription_status |-> s, subscription_end_date |-> se] :
        p \in plans, s \in statuses, te \in trial_ends, se \in sub_ends}

\* A call of a method that only reads self: the object is the same afterwards.
CallIsTrialExpired ==
    /\ \E a \in UserArgs({"trial"}, {"trial"}, Timestamps, {NoTimestamp}) :
          LET self == User_init(a)
          IN last' = [op |-> "is_trial_expired", args |-> a,
                      self |-> self, after |-> self]
                        @@ is_trial_expired(self)
    /\ UNCHANGED <<now, tables>>

CallIsSubscriptionActive ==
    /\ \E a \in UserArgs({"trial"}, Statuses, Timestamps, Timestamps) :
          LET self == User_init(a)
          IN last' = [op |-> "is_subscription_active", args |-> a,
                      self |-> self, after |-> self]
                        @@ is_subscription_active(self)
    /\ UNCHANGED <<now, tables>>

CallGetPlanFeatures ==
    /\ \E a \in UserArgs(Plans, {"trial"}, {NoTimestamp}, {NoTimestamp}) :
          LET self == User_init(a)
          IN last' = [op |-> "get_plan_features", args |-> a,
                      self |-> self, after |-> self,
                      raised |-> None, ret |-> get_plan_features(self)]
    /\ UNCHANGED <<now, tables>>

----------------------------------------------------------------------------
(* SQL helpers *)

\* sqlite3 stores a Python bool as the integer 0 or 1.
adapt_bool(b) == IF b THEN 1 ELSE 0

RECURSIVE SumAmounts(_)
SumAmounts(rows) ==
    IF rows = {} THEN 0
    ELSE LET row == CHOOSE r \in rows : TRUE
         IN row.amount + SumAmounts(rows \ {row})

\* SUM(amount): NULL (<<>>) over no rows, else <<total>>.
SUM_amount(rows) == IF rows = {} THEN <<>> ELSE <<SumAmounts(rows)>>

\* COALESCE(x, d)
COALESCE(x, d) == IF x = <<>> THEN d ELSE x[1]

\* The decimal digits of n >= 0, as str(n) writes them.
RECURSIVE str(_)
str(n) == IF n < 10 THEN <<n>> ELSE Append(str(n \div 10), n % 10)

\* Left-pad a digit string with zeros to width w.
RECURSIVE zfill(_, _)
zfill(d, w) == IF Len(d) >= w THEN d ELSE zfill(<<0>> \o d, w)

\* f'{month:02d}'
format_02d(n) == zfill(str(n), 2)

\* strftime('%m', date) and strftime('%Y', date): NULL for a NULL date, else
\* the month as two digits and the year as four.
strftime_m(date) == IF date = NoDate THEN <<>> ELSE <<zfill(str(date[2]), 2)>>
strftime_Y(date) == IF date = NoDate THEN <<>> ELSE <<zfill(str(date[1]), 4)>>

\* "column = ?" in a WHERE clause: never true of NULL.
sql_eq(x, v) == x # <<>> /\ x[1] = v

----------------------------------------------------------------------------
(* class Transaction *)

\* Transaction.__init__ on the keyword arguments a.
Transaction_init(a) ==
    [a EXCEPT
        !.amount = IF a.amount # 0 THEN a.amount ELSE 0,
        !.is_recurring = IF a.is_recurring # 0 THEN TRUE ELSE FALSE]

\* NOT NULL columns written by the INSERT and by the UPDATE of transactions.
transactions_insert_violation(self) ==
    \/ self.user_id = NoneId
    \/ self.description = None
    \/ self.transaction_type = None

transactions_update_violation(self) ==
    /\ \E row \in transactions : row.id = self.id
    /\ \/ self.description = None
       \/ self.transaction_type = None

transactions_insert_row_mut(self) ==
    [id |-> lastrowid(transactions),
     user_id |-> self.user_id,
     description |-> self.description,
     amount |-> self.amount,
     transaction_type |-> self.transaction_type,
     category |-> self.category,
     date |-> self.date,
     created_at |-> <<now>>,
     is_recurring |-> 0,
     recurrence_type |-> self.recurrence_type,
     account_id |-> self.account_id]

\* The row INSERT INTO transactions stores (created_at takes its default).
transactions_insert_row(self) ==
    [id |-> lastrowid(transactions),
     user_id |-> self.user_id,
     description |-> self.description,
     amount |-> self.amount,
     transaction_type |-> self.transaction_type,
     category |-> self.category,
     date |-> self.date,
     created_at |-> <<now>>,
     is_recurring |-> adapt_bool(self.is_recurring),
     recurrence_type |-> self.recurrence_type,
     account_id |-> self.account_id]

\* UPDATE transactions SET ... WHERE id=?, on the row it matches.
transactions_update_row(row, self) ==
    [row EXCEPT
        !.description = self.description,
        !.amount = self.amount,
        !.transaction_type = self.transaction_type,
        !.category = self.category,
        !.date = self.date,
        !.is_recurring = adapt_bool(self.is_recurring),
        !.recurrence_type = self.recurrence_type,
        !.account_id = self.account_id]

transactions_update_mut(self) ==
    {transactions_update_row(row, self) : row \in transactions}

\* The table after UPDATE transactions ... WHERE id=?
transactions_update(self) ==
    {IF row.id = self.id THEN transactions_update_row(row, self) ELSE row :
        row \in transactions}

\* Transaction.save
Transaction_save(self) ==
    LET call == [op |-> "Transaction.save", before |-> self]
    IN \/ /\ self.id # NoneId
          /\ ~transactions_update_violation(self)
          /\ transactions' = transactions_update(self)
          /\ last' = call @@ [self |-> self, raised |-> None]
       \/ /\ self.id # NoneId
          /\ transactions_update_violation(self)
          /\ UNCHANGED transactions
          /\ last' = call @@ [self |-> self, raised |-> "IntegrityError"]
       \/ /\ self.id = NoneId
          /\ ~transactions_insert_violation(self)
          /\ TotalRows < MaxRows
          /\ transactions' = transactions \cup {transactions_insert_row(self)}
          /\ last' = call @@ [self |-> [self EXCEPT !.id = lastrowid(transactions)],
                              raised |-> None]
       \/ /\ self.id = NoneId
          /\ transactions_insert_violation(self)
          /\ UNCHANGED transactions
          /\ last' = call @@ [self |-> self, raised |-> "IntegrityError"]

\* Transaction.get_by_user_id (the set of the objects returned)
Transaction_get_by_user_id(user_id) ==
    {Transaction_init(row) : row \in {r \in transactions : r.user_id = user_id}}

\* Transaction.count_by_user_id
Transaction_count_by_user_id(user_id) ==
    Cardinality({row \in transactions : row.user_id = user_id})

monthly_sum_mut(user_id, transaction_type, month, year) ==
    COALESCE(
        SUM_amount({row \in transactions :
            /\ row.user_id = user_id
            /\ row.transaction_type = transaction_type
            /\ sql_eq(strftime_m(row.date), format_02d(month))}),
        0)

\* SELECT COALESCE(SUM(amount), 0) FROM transactions WHERE user_id = ? AND
\* transaction_type = ... AND strftime('%m', date) = ? AND strftime('%Y', date) = ?
monthly_sum(user_id, transaction_type, month, year) ==
    COALESCE(
        SUM_amount({row \in transactions :
            /\ row.user_id = user_id
            /\ row.transaction_type = transaction_type
            /\ sql_eq(strftime_m(row.date), format_02d(month))
            /\ sql_eq(strftime_Y(row.date), str(year))}),
        0)

\* Transaction.get_monthly_summary
Transaction_get_monthly_summary(user_id, month, year) ==
    <<monthly_sum(user_id, "income", month, year),
      monthly_sum(user_id, "expense", month, year)>>

\* Keyword arguments for Transaction(...): every id and owner with every sample
\* of the other fields.
TransactionArgs(ids, user_ids, samples) ==
    {[id |-> i, user_id |-> u, description |-> s.description,
      amount |-> s.amount, transaction_type |-> s.transaction_type,
      category |-> s.category, date |-> s.date, created_at |-> NoTimestamp,
      is_recurring |-> s.is_recurring, recurrence_type |-> s.recurrence_type,
      account_id |-> s.account_id] :
        i \in ids, u \in user_ids, s \in samples}

SaveTransaction(args) ==
    /\ \E a \in args : Transaction_save(Transaction_init(a))
    /\ UNCHANGED <<now, users, accounts, financial_goals>>

----------------------------------------------------------------------------
(* class Account *)

\* Account.__init__ on the keyword arguments a.
Account_init(a) ==
    [a EXCEPT
        !.amount = IF a.amount # 0 THEN a.amount ELSE 0,
        !.status = IF a.status \in {None, ""} THEN "pending" ELSE a.status]

accounts_insert_violation(self) ==
    \/ self.user_id = NoneId
    \/ self.name = None
    \/ self.account_type = None

accounts_update_violation(self) ==
    /\ \E row \in accounts : row.id = self.id
    /\ \/ self.name = None
       \/ self.account_type = None

\* The row INSERT INTO accounts stores.
accounts_insert_row(self) ==
    [id |-> lastrowid(accounts),
     user_id |-> self.user_id,
     name |-> self.name,
     account_type |-> self.account_type,
     amount |-> self.amount,
     due_date |-> self.due_date,
     status |-> self.status,
     created_at |-> <<now>>]

accounts_update_row_mut(row, self) ==
    [row EXCEPT
        !.name = self.name,
        !.account_type = self.account_type,
        !.amount = self.amount,
        !.due_date = self.due_date]

\* UPDATE accounts SET ... WHERE id=?, on the row it matches.
accounts_update_row(row, self) ==
    [row EXCEPT
        !.name = self.name,
        !.account_type = self.account_type,
        !.amount = self.amount,
        !.due_date = self.due_date,
        !.status = self.status]

\* The table after UPDATE accounts ... WHERE id=?
accounts_update(self) ==
    {IF row.id = self.id THEN accounts_update_row(row, self) ELSE row :
        row \in accounts}

\* Account.save
Account_save(self) ==
    LET call == [op |-> "Account.save", before |-> self]
    IN \/ /\ self.id # NoneId
          /\ ~accounts_update_violation(self)
          /\ accounts' = accounts_update(self)
          /\ last' = call @@ [self |-> self, raised |-> None]
       \/ /\ self.id # NoneId
          /\ accounts_update_violation(self)
          /\ UNCHANGED accounts
          /\ last' = call @@ [self |-> self, raised |-> "IntegrityError"]
       \/ /\ self.id = NoneId
          /\ ~accounts_insert_violation(self)
          /\ TotalRows < MaxRows
          /\ accounts' = accounts \cup {accounts_insert_row(self)}
          /\ last' = call @@ [self |-> [self EXCEPT !.id = lastrowid(accounts)],
                              raised |-> None]
       \/ /\ self.id = NoneId
          /\ accounts_insert_violation(self)
          /\ UNCHANGED accounts
          /\ last' = call @@ [self |-> self, raised |-> "IntegrityError"]

\* Account.get_by_user_id without a type filter
Account_get_by_user_id(user_id) ==
    {Account_init(row) : row \in {r \in accounts : r.user_id = user_id}}

\* Account.get_by_id: with user_id falsy the owner is not part of the query.
Account_get_by_id(account_id, user_id) ==
    LET rows == {row \in accounts :
                    /\ row.id = account_id
                    /\ (user_id # NoneId => row.user_id = user_id)}
    IN IF rows = {} THEN [id |-> NoneId]
       ELSE Account_init(CHOOSE row \in rows : TRUE)

\* Account.get_pending_total
Account_get_pending_total(user_id, account_type) ==
    COALESCE(
        SUM_amount({row \in accounts :
            /\ row.user_id = user_id
            /\ row.account_type = account_type
            /\ row.status = "pending"}),
        0)

AccountArgs(ids, user_ids, samples) ==
    {[id |-> i, user_id |-> u, name |-> s.name,
      account_type |-> s.account_type, amount |-> s.amount,
      due_date |-> s.due_date, status |-> s.status,
      created_at |-> NoTimestamp] :
        i \in ids, u \in user_ids, s \in samples}

SaveAccount(args) ==
    /\ \E a \in args : Account_save(Account_init(a))
    /\ UNCHANGED <<now, users, transactions, financial_goals>>

----------------------------------------------------------------------------
(* class FinancialGoal *)

\* FinancialGoal.__init__ on the keyword arguments a.
FinancialGoal_init(a) ==
    [a EXCEPT
        !.target_amount = IF a.target_amount # 0 THEN a.target_amount ELSE 0,
        !.current_amount = IF a.current_amount # 0 THEN a.current_amount ELSE 0,
        !.is_completed = IF a.is_completed # 0 THEN TRUE ELSE FALSE]

\* min(100, q) of Python for a rational q = num / den with den > 0: the first
\* argument unless the second is smaller.
min_100(q) ==
    IF q.num < 100 * q.den THEN q ELSE [num |-> 100, den |-> 1]

\* (current / target) * 100 as an exact rational with a positive denominator.
ratio_times_100(current, target) ==
    IF target > 0 THEN [num |-> 100 * current, den |-> target]
    ELSE [num |-> -(100 * current), den |-> -target]

get_progress_percentage_mut(self) ==
    IF self.target_amount = 0
    THEN [num |-> 0, den |-> 1]
    ELSE ratio_times_100(self.current_amount, self.target_amount)

\* FinancialGoal.get_progress_percentage
get_progress_percentage(self) ==
    IF self.target_amount = 0
    THEN [num |-> 0, den |-> 1]
    ELSE min_100(ratio_times_100(self.current_amount, self.target_amount))

financial_goals_insert_violation(self) ==
    \/ self.user_id = NoneId
    \/ self.title = None

financial_goals_update_violation(self) ==
    /\ \E row \in financial_goals : row.id = self.id
    /\ self.title = None

\* The row INSERT INTO financial_goals stores.
financial_goals_insert_row(self) ==
    [id |-> lastrowid(financial_goals),
     user_id |-> self.user_id,
     title |-> self.title,
     target_amount |-> self.target_amount,
     current_amount |-> self.current_amount,
     target_date |-> self.target_date,
     created_at |-> <<now>>,
     is_completed |-> adapt_bool(self.is_completed)]

\* UPDATE financial_goals SET ... WHERE id=?, on the row it matches.
financial_goals_update_row(row, self) ==
    [row EXCEPT
        !.title = self.title,
        !.target_amount = self.target_amount,
        !.current_amount = self.current_amount,
        !.target_date = self.target_date,
        !.is_completed = adapt_bool(self.is_completed)]

\* The table after UPDATE financial_goals ... WHERE id=?
financial_goals_update(self) ==
    {IF row.id = self.id THEN financial_goals_update_row(row, self) ELSE row :
        row \in financial_goals}

\* FinancialGoal.save
FinancialGoal_save(self) ==
    LET call == [op |-> "FinancialGoal.save", before |-> self]
    IN \/ /\ self.id # NoneId
          /\ ~financial_goals_update_violation(self)
          /\ financial_goals' = financial_goals_update(self)
          /\ last' = call @@ [self |-> self, raised |-> None]
       \/ /\ self.id # NoneId
          /\ financial_goals_update_violation(self)
          /\ UNCHANGED financial_goals
          /\ last' = call @@ [self |-> self, raised |-> "IntegrityError"]
       \/ /\ self.id = NoneId
          /\ ~financial_goals_insert_violation(self)
          /\ TotalRows < MaxRows
          /\ financial_goals' =
                financial_goals \cup {financial_goals_insert_row(self)}
          /\ last' = call @@ [self |-> [self EXCEPT
                                            !.id = lastrowid(financial_goals)],
                              raised |-> None]
       \/ /\ self.id = NoneId
          /\ financial_goals_insert_violation(self)
          /\ UNCHANGED financial_goals
          /\ last' = call @@ [self |-> self, raised |-> "IntegrityError"]

\* FinancialGoal.get_by_user_id without a completion filter
FinancialGoal_get_by_user_id(user_id) ==
    {FinancialGoal_init(row) :
        row \in {r \in financial_goals : r.user_id = user_id}}

FinancialGoalArgs(ids, user_ids, samples) ==
    {[id |-> i, user_id |-> u, title |-> s.title,
      target_amount |-> s.target_amount, current_amount |-> s.current_amount,
      target_date |-> s.target_date, created_at |-> NoTimestamp,
      is_completed |-> s.is_completed] :
        i \in ids, u \in user_ids, s \in samples}

SaveFinancialGoal(args) ==
    /\ \E a \in args : FinancialGoal_save(FinancialGoal_init(a))
    /\ UNCHANGED <<now, users, transactions, accounts>>

CallGetProgressPercentage(args) ==
    /\ \E a \in args :
          LET self == FinancialGoal_init(a)
          IN last' = [op |-> "get_progress_percentage", self |-> self,
                      raised |-> None, ret |-> get_progress_percentage(self)]
    /\ UNCHANGED <<now, tables>>

----------------------------------------------------------------------------
(* Inputs *)

UserIds == {1, 2}

\* Identifiers a caller may put in a record: none, those of stored rows, and
\* one that no row has.
RecordIds == 0..(MaxRows + 1)

\* Field values for the store: two samples that differ in every column, and one
\* without the NOT NULL text column.
StoreTransactionSamples ==
    {[description |-> "venda", amount |-> 1, transaction_type |-> "income",
      category |-> "vendas", date |-> <<2024, 1>>, is_recurring |-> 0,
      recurrence_type |-> None, account_id |-> NoneId],
     [description |-> "aluguel", amount |-> 2, transaction_type |-> "expense",
      category |-> None, date |-> NoDate, is_recurring |-> 1,
      recurrence_type |-> "monthly", account_id |-> 1],
     [description |-> None, amount |-> 0, transaction_type |-> "income",
      category |-> None, date |-> NoDate, is_recurring |-> 0,
      recurrence_type |-> None, account_id |-> NoneId]}

StoreAccountSamples ==
    {[name |-> "cliente", account_type |-> "receivable", amount |-> 1,
      due_date |-> <<2024, 1>>, status |-> None],
     [name |-> "fornecedor", account_type |-> "payable", amount |-> 2,
      due_date |-> NoDate, status |-> "paid"],
     [name |-> None, account_type |-> "payable", amount |-> 0,
      due_date |-> NoDate, status |-> None]}

StoreGoalSamples ==
    {[title |-> "reserva", target_amount |-> 2, current_amount |-> 0,
      target_date |-> <<2024, 1>>, is_completed |-> 0],
     [title |-> "viagem", target_amount |-> 1, current_amount |-> 1,
      target_date |-> NoDate, is_completed |-> 1],
     [title |-> None, target_amount |-> 0, current_amount |-> 0,
      target_date |-> NoDate, is_completed |-> 0]}

StoreTransactionArgs ==
    TransactionArgs(RecordIds, UserIds \cup {NoneId}, StoreTransactionSamples)
StoreAccountArgs ==
    AccountArgs(RecordIds, UserIds \cup {NoneId}, StoreAccountSamples)
StoreGoalArgs ==
    FinancialGoalArgs(RecordIds, UserIds \cup {NoneId}, StoreGoalSamples)

\* Transactions for the monthly summary: incomes of two amounts in January
\* 2024, an income in December 2024, in January 2023 and without a date,
\* expenses in the same three months, a transfer, and one without description.
SummaryTransactionSamples ==
    {[description |-> "venda", amount |-> x[1], transaction_type |-> x[2],
      category |-> None, date |-> x[3], is_recurring |-> 0,
      recurrence_type |-> None, account_id |-> NoneId] :
        x \in ({1, 2} \X {"income"} \X {<<2024, 1>>})
            \cup ({1} \X {"income"} \X {<<2024, 12>>, <<2023, 1>>, NoDate})
            \cup ({2} \X {"expense"} \X {<<2024, 1>>, <<2023, 1>>})
            \cup {<<1, "expense", <<2024, 12>> >>, <<1, "transfer", <<2024, 1>> >>}}
        \cup {[description |-> None, amount |-> 0, transaction_type |-> "income",
               category |-> None, date |-> NoDate, is_recurring |-> 0,
               recurrence_type |-> None, account_id |-> NoneId]}

SummaryTransactionArgs ==
    TransactionArgs(0..MaxRows, UserIds, SummaryTransactionSamples)

QueryMonths == {1, 12}
QueryYears == {2023, 2024}

\* Accounts for the pending total: both types, two amounts, each status (an
\* omitted status is the constructor's default), and one without name.
PendingAccountSamples ==
    {[name |-> "cliente", account_type |-> x[1], amount |-> x[2],
      due_date |-> NoDate, status |-> x[3]] :
        x \in {"receivable", "payable"} \X {1, 2} \X {None, "pending", "paid"}}
        \cup {[name |-> None, account_type |-> "payable", amount |-> 0,
               due_date |-> NoDate, status |-> None]}

PendingAccountArgs ==
    AccountArgs(0..MaxRows, UserIds, PendingAccountSamples)

AccountTypes == {"receivable", "payable"}

\* Goals for the progress percentage: every pair of amounts of either sign.
MaxAmount == 3

ProgressGoalArgs ==
    {[id |-> NoneId, user_id |-> 1, title |-> "reserva",
      target_amount |-> t, current_amount |-> c, target_date |-> NoDate,
      created_at |-> NoTimestamp, is_completed |-> 0] :
        t \in -MaxAmount..MaxAmount, c \in -MaxAmount..MaxAmount}

-----
(* Specifications *)

Init ==
    /\ now = 0
    /\ users = {}
    /\ transactions = {}
    /\ accounts = {}
    /\ financial_goals = {}
    /\ last = [op |-> "init"]

\* The gate alone: pure functions of the clock and the User object.
NextGate ==
    \/ Tick
    \/ CallIsTrialExpired
    \/ CallIsSubscriptionActive
    \/ CallGetPlanFeatures

SpecGate == Init /\ [][NextGate]_vars

\* Registration and the passing of time.
NextUsers ==
    \/ Tick
    \/ CreateUser

SpecUsers == Init /\ [][NextUsers]_vars

\* The three record tables under save() calls of any kind, in any order.
Next ==
    \/ SaveTransaction(StoreTransactionArgs)
    \/ SaveAccount(StoreAccountArgs)
    \/ SaveFinancialGoal(StoreGoalArgs)

Spec == Init /\ [][Next]_vars

\* Transactions alone, with the fields the monthly summary reads.
NextSummary ==
    SaveTransaction(SummaryTransactionArgs)

SpecSummary == Init /\ [][NextSummary]_vars

\* Accounts alone, with the fields the pending total reads.
NextPending ==
    SaveAccount(PendingAccountArgs)

SpecPending == Init /\ [][NextPending]_vars

\* Goals: saves, and the progress of any goal object.
NextGoals ==
    \/ SaveFinancialGoal(StoreGoalArgs)
    \/ CallGetProgressPercentage(ProgressGoalArgs)

SpecGoals == Init /\ [][NextGoals]_vars

----------------------------------------------------------------------------
(* Claims *)

SaveOps == {"Transaction.save", "Account.save", "FinancialGoal.save"}

\* A save() call has just returned to its caller.
SaveReturned == last.op \in SaveOps /\ last.raised = None

\* The table a save() call wrote to.
TableOf(op) ==
    CASE op = "Transaction.save" -> transactions
      [] op = "Account.save" -> accounts
      [] op = "FinancialGoal.save" -> financial_goals

\* The objects get_by_user_id of the call's class returns for user_id.
FetchedBy(op, user_id) ==
    CASE op = "Transaction.save" -> Transaction_get_by_user_id(user_id)
      [] op = "Account.save" -> Account_get_by_user_id(user_id)
      [] op = "FinancialGoal.save" -> FinancialGoal_get_by_user_id(user_id)

\* The fetched object r carries the owner and every mutable field of self.
SameFields(op, r, self) ==
    /\ r.user_id = self.user_id
    /\ CASE op = "Transaction.save" ->
                /\ r.description = self.description
                /\ r.amount = self.amount
                /\ r.transaction_type = self.transaction_type
                /\ r.category = self.category
                /\ r.date = self.date
                /\ r.is_recurring = self.is_recurring
                /\ r.recurrence_type = self.recurrence_type
                /\ r.account_id = self.account_id
         [] op = "Account.save" ->
                /\ r.name = self.name
                /\ r.account_type = self.account_type
                /\ r.amount = self.amount
                /\ r.due_date = self.due_date
                /\ r.status = self.status
         [] op = "FinancialGoal.save" ->
                /\ r.title = self.title
                /\ r.target_amount = self.target_amount
                /\ r.current_amount = self.current_amount
                /\ r.target_date = self.target_date
                /\ r.is_completed = self.is_completed

\* Fetching the records of self.user_id yields one with self's identifier,
\* owner and fields.
RoundTrip ==
    \E r \in FetchedBy(last.op, last.self.user_id) :
        r.id = last.self.id /\ SameFields(last.op, r, last.self)

\* The row with the record's identifier exists and is owned by the record's user.
StoredUnderOwner ==
    \E row \in TableOf(last.op) :
        row.id = last.self.id /\ row.user_id = last.self.user_id

\* The record names a user and, when it has an identifier, a stored row.
NamesStoredRow ==
    /\ last.self.user_id \in UserIds
    /\ \/ last.before.id = NoneId
       \/ \E row \in TableOf(last.op) : row.id = last.self.id

\* C1, as stated: after any save() that returns, insert branch or update
\* branch, get_by_user_id(r.user_id) yields a record with r's identifier, owner
\* and mutable fields (read here for the records of a user that name a stored
\* row when they have an identifier).
C1_RoundTripAnySave ==
    SaveReturned /\ NamesStoredRow => RoundTrip

\* C1, amended: the round trip holds after every save() that took the insert
\* branch, and after every save() that took the update branch on a record whose
\* identifier is that of a stored row owned by r.user_id (the UPDATE matches no
\* row for an unknown identifier and never writes user_id).
C1_RoundTrip ==
    SaveReturned /\ (last.before.id = NoneId \/ StoredUnderOwner) => RoundTrip

\* An update of row 1 of two transactions, to the sample that differs from the
\* inserted one in every field, has been read back.
C1_Witness ==
    /\ SaveReturned
    /\ last.op = "Transaction.save"
    /\ last.before.id = 1
    /\ last.self.description = "aluguel"
    /\ Cardinality(transactions) = 2
    /\ StoredUnderOwner
    /\ RoundTrip

\* The effect of a save() on its table: old and new are the table before and
\* after, call the record of the call.
SaveFrame(old, new, call) ==
    IF call.before.id = NoneId
    THEN /\ Cardinality(new) = Cardinality(old) + 1
         /\ old \subseteq new
         /\ call.self.id \notin {row.id : row \in old}
         /\ \E row \in new \ old : row.id = call.self.id
         /\ Cardinality({row \in new : row.user_id = call.self.user_id})
                = Cardinality({row \in old : row.user_id = call.self.user_id}) + 1
    ELSE /\ Cardinality(new) = Cardinality(old)
         /\ {row.id : row \in new} = {row.id : row \in old}
         /\ \A row \in old : row.id # call.self.id => row \in new

\* C2: in every step that is a save() that returns, a record without
\* identifier adds exactly one row, gets an identifier no row of the table had,
\* leaves the existing rows as they were and raises the owner's
\* count_by_user_id by one; a record with an identifier adds no row and changes
\* no row but the one with that identifier.
C2_InsertOrUpdate ==
    [][/\ (last'.op = "Transaction.save" /\ last'.raised = None)
            => /\ SaveFrame(transactions, transactions', last')
               /\ \A u \in UserIds :
                    (last'.before.id = NoneId /\ last'.self.user_id = u)
                        => Transaction_count_by_user_id(u)'
                            = Transaction_count_by_user_id(u) + 1
       /\ (last'.op = "Account.save" /\ last'.raised = None)
            => SaveFrame(accounts, accounts', last')
       /\ (last'.op = "FinancialGoal.save" /\ last'.raised = None)
            => SaveFrame(financial_goals, financial_goals', last')]_vars

\* An update of one of two stored transactions that changed its fields, and an
\* insert into a table that already held a row, have both happened.
C2_Witness ==
    /\ SaveReturned
    /\ last.op = "Transaction.save"
    /\ last.before.id = 1
    /\ Cardinality(transactions) = 2
    /\ \E r1, r2 \in transactions :
          /\ r1.id = 1 /\ r2.id = 2
          /\ r1.description = "aluguel" /\ r2.description = "venda"

\* The instant a timestamp text denotes.
InstantOf(ts) == ts[1]

\* C3, as stated: is_trial_expired() answers, and is true exactly when a
\* trial_end_date is set and the current time is strictly later than it.
C3_TrialExpiryBoundary ==
    last.op = "is_trial_expired"
        => /\ last.raised = None
           /\ last.ret =
                (/\ last.self.trial_end_date # NoTimestamp
                 /\ now > InstantOf(last.self.trial_end_date))

\* What the gate is to answer for the object self at the current time.
GateExpected(self) ==
    CASE self.subscription_status = "trial" ->
            \/ self.trial_end_date = NoTimestamp
            \/ now <= InstantOf(self.trial_end_date)
      [] self.subscription_status = "active" ->
            /\ self.subscription_end_date # NoTimestamp
            /\ now <= InstantOf(self.subscription_end_date)
      [] OTHER -> FALSE

\* C4, as stated: is_subscription_active() answers, is truthy exactly when the
\* status is 'trial' and the trial is not expired or the status is 'active' and
\* the current time is not later than a set subscription_end_date, and leaves
\* the user object as it was.
C4_SubscriptionGate ==
    last.op = "is_subscription_active"
        => /\ last.raised = None
           /\ truthy(last.ret) = GateExpected(last.self)
           /\ last.after = last.self

\* C5: every stored user has plan and status 'trial', the active flag, and a
\* trial_end_date 7 days after its creation; its subscription is active at
\* every time up to and including creation + 7 days and at no later time.
C5_SevenDayTrial ==
    \A row \in users :
        LET self == User_get_by_id(row.id)
            gate == is_subscription_active(self)
        IN /\ self.subscription_plan = "trial"
           /\ self.subscription_status = "trial"
           /\ self.active = TRUE
           /\ self.trial_end_date = <<InstantOf(row.created_at) + 7>>
           /\ gate.raised = None
           /\ truthy(gate.ret) = (now <= InstantOf(row.created_at) + 7)

\* One user is at the last instant of its trial and another is one day past it.
C5_Witness ==
    \E r1, r2 \in users :
        /\ now = InstantOf(r1.created_at) + 7
        /\ truthy(is_subscription_active(User_get_by_id(r1.id)).ret)
        /\ now = InstantOf(r2.created_at) + 8
        /\ ~truthy(is_subscription_active(User_get_by_id(r2.id)).ret)

\* C6: get_plan_features() never fails; for the plan names mei, professional
\* and enterprise it returns that plan's limits, and for trial and every other
\* name, a missing or empty one included, the trial limits.
C6_PlanFeatures ==
    last.op = "get_plan_features"
        => /\ last.raised = None
           /\ LET plan == last.args.subscription_plan
                  f == last.ret
                  limits == <<f.transactions_limit, f.reports,
                              f.automation, f.multi_user>>
              IN CASE plan = "mei" -> limits = <<100, TRUE, FALSE, FALSE>>
                   [] plan = "professional" -> limits = <<500, TRUE, TRUE, FALSE>>
                   [] plan = "enterprise" -> limits = <<-1, TRUE, TRUE, TRUE>>
                   [] OTHER -> limits = <<10, FALSE, FALSE, FALSE>>

\* The features of a user whose plan name is not in the table were asked for.
C6_Witness ==
    /\ last.op = "get_plan_features"
    /\ last.args.subscription_plan = "premium"
    /\ last.ret.transactions_limit = 10

\* The expected sum: the amounts of the stored transactions of that user and
\* type dated in that month of that year.
AmountsIn(user_id, transaction_type, month, year) ==
    SumAmounts({row \in transactions :
        /\ row.user_id = user_id
        /\ row.transaction_type = transaction_type
        /\ row.date # NoDate
        /\ row.date[1] = year
        /\ row.date[2] = month})

PendingAmounts(user_id, account_type) ==
    SumAmounts({row \in accounts :
        /\ row.user_id = user_id
        /\ row.account_type = account_type
        /\ row.status = "pending"})

\* C8: in every state reached by account saves, get_pending_total(user, type)
\* is the sum of the amounts of that user's pending accounts of that type; and
\* a save() that turns a stored pending account into a non-pending one lowers
\* the total of its owner and type by its amount.
C8_PendingTotal ==
    /\ [](\A u \in UserIds, t \in AccountTypes :
            Account_get_pending_total(u, t) = PendingAmounts(u, t))
    /\ [][(last'.op = "Account.save" /\ last'.raised = None)
            => \A old \in accounts :
                  (/\ old.id = last'.self.id
                   /\ old.status = "pending"
                   /\ last'.self.status # "pending")
                    => Account_get_pending_total(old.user_id, old.account_type)'
                        = Account_get_pending_total(old.user_id, old.account_type)
                            - old.amount]_vars

\* Account 1 has been saved as paid while another pending account of the same
\* user and type is stored, and the total is the amount of that other account.
C8_Witness ==
    /\ last.op = "Account.save" /\ last.raised = None
    /\ last.before.id = 1
    /\ last.self.status = "paid"
    /\ \E r1, r2 \in accounts :
          /\ r1.id = 1 /\ r1.status = "paid"
          /\ r2.id = 2 /\ r2.status = "pending"
          /\ r2.user_id = r1.user_id /\ r2.account_type = r1.account_type
          /\ Account_get_pending_total(r2.user_id, r2.account_type) = r2.amount

\* 100 * current / target is at most 100 (target is not 0).
AtMost100(current, target) ==
    \/ target > 0 /\ current <= target
    \/ target < 0 /\ current >= target

\* The rational q is 100 * current / target.
IsPercentage(q, current, target) == q.num * target = 100 * current * q.den

\* C9, as stated: the progress is 0 for a zero target, 100 * current / target
\* when that is at most 100, exactly 100 when current exceeds the (non-zero)
\* target, and never more than 100.
C9_ProgressAsStated ==
    last.op = "get_progress_percentage"
        => LET c == last.self.current_amount
               t == last.self.target_amount
               q == last.ret
           IN /\ t = 0 => q.num = 0
              /\ (t # 0 /\ AtMost100(c, t)) => IsPercentage(q, c, t)
              /\ (t # 0 /\ c > t) => q.num = 100 * q.den
              /\ q.num <= 100 * q.den

\* C9, amended: the progress is 0 for a zero target, 100 * current / target
\* when that is at most 100, exactly 100 when current exceeds a positive
\* target, and never more than 100.
C9_Progress ==
    last.op = "get_progress_percentage"
        => LET c == last.self.current_amount
               t == last.self.target_amount
               q == last.ret
           IN /\ last.raised = None
              /\ t = 0 => q.num = 0
              /\ (t # 0 /\ AtMost100(c, t)) => IsPercentage(q, c, t)
              /\ (t > 0 /\ c > t) => q.num = 100 * q.den
              /\ q.num <= 100 * q.den

\* The progress of a goal whose current amount exceeds its positive target was
\* asked for and is 100.
C9_Witness ==
    /\ last.op = "get_progress_percentage"
    /\ last.self.target_amount = 2
    /\ last.self.current_amount = 3
    /\ last.ret = [num |-> 100, den |-> 1]

\* No two stored users share a username or an email.
UsersUnique ==
    \A r1, r2 \in users :
        r1 # r2 => r1.username # r2.username /\ r1.email # r2.email

\* C10: usernames and emails are unique in every reachable state, and a
\* User.create whose username or email belongs to a stored user raises the
\* store's error, returns no user and leaves the users table as it was.
C10_UniqueUsers ==
    /\ []UsersUnique
    /\ [][(/\ last'.op = "User.create"
           /\ \E row \in users :
                \/ row.username = last'.username
                \/ row.email = last'.email)
            => /\ last'.raised = "IntegrityError"
               /\ last'.ret.id = NoneId
               /\ users' = users]_vars

\* A registration with a fresh username and the email of a stored user was
\* refused.
C10_Witness ==
    /\ last.op = "User.create"
    /\ last.raised = "IntegrityError"
    /\ Cardinality(users) = 1
    /\ \E row \in users :
          row.username # last.username /\ row.email = last.email

\* A stored transaction has exactly one owner: its user_id column holds one
\* user identifier.
BelongsToOneUser == \A row \in transactions : row.user_id # NoneId

\* The account a stored transaction names, when it names one, is what
\* Account.get_by_id returns for that identifier and the transaction's owner.
AccountReferencesOwned ==
    \A row \in transactions :
        row.account_id # NoneId
            => Account_get_by_id(row.account_id, row.user_id).id = row.account_id

\* A step leaves every row that stays in its table with the owner it had.
OwnerKept(old, new) ==
    \A r1 \in old : \A r2 \in new : r1.id = r2.id => r1.user_id = r2.user_id

NeverMovesOwner ==
    /\ OwnerKept(transactions, transactions')
    /\ OwnerKept(accounts, accounts')
    /\ OwnerKept(financial_goals, financial_goals')

\* C11: in every reachable state each stored transaction has exactly one
\* owner, and the account it names (when it names one) exists and has the same
\* owner; and no save() changes the owner of a row that was already stored.
C11_NoCrossUserReferences ==
    /\ [](BelongsToOneUser /\ AccountReferencesOwned)
    /\ [][NeverMovesOwner]_vars

====
